---- MODULE Spec2Model ----
(***************************************************************************)
(* Model of the sessionization and attribution batch job                   *)
(* (part2-transformation/code/transform.py, run_transformation) and of the *)
(* payload key probing of the data-quality check                           *)
(* (part1-data-quality/code/validate_dataframework.py).                    *)
(*                                                                         *)
(* Conventions.                                                            *)
(*  - A text (client_id, page_url, referrer, session_id) is a sequence of  *)
(*    tokens; concatenation is \o, a substring test is the presence of a   *)
(*    token, lower() maps every token.  A missing CSV cell is NaN.         *)
(*  - A timestamp is a whole number of minutes.                            *)
(*  - A JSON value (and Python's None) is a record [t, n, s].              *)
(*  - A data frame is a sequence of rows (records).                        *)
(***************************************************************************)
EXTENDS Integers, Sequences, FiniteSets, TLC

\* ------------------------------------------------------------------ bounds
\* Largest number of rows the concatenated input frame holds.
MaxEvents == 3

\* ------------------------------------------------------- program constants
ATTRIBUTION_WINDOW_DAYS == 7
INACTIVITY_TIMEOUT_MINS == 30
MinutesPerDay == 1440

\* ------------------------------------------------------------------ values
\* The missing value of a text column (pandas NaN).
NaN == <<"<NaN>">>
\* The missing value of the event_name column.
NoName == "<NaN>"

\* Python's None and the JSON values json.loads yields inside an object.
None == [t |-> "none", n |-> 0, s |-> <<>>]
Num(x) == [t |-> "num", n |-> x, s |-> <<>>]
Str(x) == [t |-> "str", n |-> 0, s |-> x]

\* bool(v) as Python's `or` uses it.
Truthy(v) ==
    CASE v.t = "num" -> v.n # 0
      [] v.t = "str" -> v.s # <<>>
      [] OTHER -> FALSE

\* a or b
PyOr(a, b) == IF Truthy(a) THEN a ELSE b

\* float(v) succeeds on a number and on a numeric string.
NumericText == { <<"50">> }
FloatOk(v) == v.t = "num" \/ (v.t = "str" /\ v.s \in NumericText)
Float(v) == IF v.t = "num" THEN v.n ELSE 50

\* ------------------------------------------------------ channel classifier
LowerTok(t) ==
    CASE t = "UTM_MEDIUM=CPC" -> "utm_medium=cpc"
      [] t = "Google." -> "google."
      [] OTHER -> t

\* str(x).lower()
PyStr(x) == IF x = NaN THEN <<"nan">> ELSE x
Lower(s) == [i \in DOMAIN s |-> LowerTok(s[i])]

\* `marker in text`
Contains(text, marker) == \E i \in DOMAIN text : text[i] = marker

Rule1(url) == Contains(url, "utm_medium=cpc") \/ Contains(url, "utm_medium=paid")
Rule2(url) == Contains(url, "utm_source=facebook") \/ Contains(url, "utm_source=instagram")
Rule3(url) == Contains(url, "utm_medium=email")
Rule4(ref) == Contains(ref, "google.")
Rule5(ref) == Contains(ref, "facebook.") \/ Contains(ref, "t.co")
Rule6(ref) == ref = <<"nan">> \/ ref = <<>>

\* Mutant: the paid-social test is made before the paid-search test, and the
\* referrer tests before the email test.
classify_channel_reordered(row) ==
    LET url == Lower(PyStr(row.page_url))
        ref == Lower(PyStr(row.referrer))
    IN  IF Rule2(url) THEN "Paid Social"
        ELSE IF Rule1(url) THEN "Paid Search"
        ELSE IF Rule4(ref) THEN "Organic Search"
        ELSE IF Rule3(url) THEN "Email"
        ELSE IF Rule5(ref) THEN "Organic Social"
        ELSE IF Rule6(ref) THEN "Direct"
        ELSE "Referral"

classify_channel(row) ==
    LET url == Lower(PyStr(row.page_url))
        ref == Lower(PyStr(row.referrer))
    IN  IF Rule1(url) THEN "Paid Search"
        ELSE IF Rule2(url) THEN "Paid Social"
        ELSE IF Rule3(url) THEN "Email"
        ELSE IF Rule4(ref) THEN "Organic Search"
        ELSE IF Rule5(ref) THEN "Organic Social"
        ELSE IF Rule6(ref) THEN "Direct"
        ELSE "Referral"

\* ------------------------------------------------------------ frame helpers
\* DataFrame.drop_duplicates(): the first of equal rows is kept.
DropDuplicates(df) ==
    LET keep == { i \in DOMAIN df : \A j \in 1..(i - 1) : df[j] # df[i] }
        F[i \in 0..Len(df)] ==
            IF i = 0 THEN <<>>
            ELSE IF i \in keep THEN Append(F[i - 1], df[i]) ELSE F[i - 1]
    IN  F[Len(df)]

\* df[df['client_id'].notnull()]
FilterGhostUsers(df) ==
    LET F[i \in 0..Len(df)] ==
            IF i = 0 THEN <<>>
            ELSE IF df[i].client_id # NaN THEN Append(F[i - 1], df[i]) ELSE F[i - 1]
    IN  F[Len(df)]

\* The tokens of client and session ids in character order (digits, then
\* '_', then letters).
TokOrder == <<"1", "2", "3", "4", "5", "6", "7", "8", "9", "_S", "u1", "u2">>
TokRank(t) == CHOOSE i \in DOMAIN TokOrder : TokOrder[i] = t

\* a < b for two texts, as Python compares str: the first differing place
\* decides, and a proper prefix comes first.
TextLess(a, b) ==
    LET m == IF Len(a) < Len(b) THEN Len(a) ELSE Len(b)
        diffs == { i \in 1..m : a[i] # b[i] }
    IN  IF diffs = {} THEN Len(a) < Len(b)
        ELSE LET k == CHOOSE i \in diffs : \A j \in diffs : i <= j
             IN  TokRank(a[k]) < TokRank(b[k])

\* Row a sorts strictly before row b under ['client_id', 'timestamp'].
KeyLess(a, b) ==
    \/ TextLess(a.client_id, b.client_id)
    \/ /\ a.client_id = b.client_id
       /\ a.timestamp < b.timestamp
KeyEq(a, b) == a.client_id = b.client_id /\ a.timestamp = b.timestamp

\* sort_values(['client_id', 'timestamp']): a lexsort, stable, so rows with
\* equal keys keep their input order.
SortValues(df) ==
    LET pos(i) == Cardinality({ j \in DOMAIN df : KeyLess(df[j], df[i]) })
                  + Cardinality({ j \in 1..(i - 1) : KeyEq(df[j], df[i]) }) + 1
    IN  [p \in DOMAIN df |-> df[CHOOSE i \in DOMAIN df : pos(i) = p]]

\* ------------------------------------------------------------- sessionizer
\* groupby('client_id')['timestamp'].diff(): <<>> is the null of a client's
\* first row, <<d>> the minutes since the client's previous row.
TimeDiff(df, i) ==
    LET prev == { j \in 1..(i - 1) : df[j].client_id = df[i].client_id }
    IN  IF prev = {} THEN <<>>
        ELSE LET p == CHOOSE j \in prev : \A k \in prev : k <= j
             IN  <<df[i].timestamp - df[p].timestamp>>

\* Mutant: a gap of exactly the timeout opens a session too.
IsNewSessionAtTimeout(df, i) ==
    LET d == TimeDiff(df, i)
    IN  d = <<>> \/ d[1] >= INACTIVITY_TIMEOUT_MINS

\* (time_diff > INACTIVITY_TIMEOUT_MINS) | time_diff.isnull()
IsNewSession(df, i) ==
    LET d == TimeDiff(df, i)
    IN  d = <<>> \/ d[1] > INACTIVITY_TIMEOUT_MINS

\* groupby('client_id')['is_new_session'].cumsum()
SessionNo(df, i) ==
    Cardinality({ j \in 1..i : df[j].client_id = df[i].client_id /\ IsNewSession(df, j) })

\* Mutant: the session id leaves the client out.
SessionIdNoClient(df, i) == <<"_S", ToString(SessionNo(df, i))>>

\* client_id.astype(str) + '_S' + cumsum.astype(str)
SessionId(df, i) == df[i].client_id \o <<"_S", ToString(SessionNo(df, i))>>

\* Lines 31-56: the cleaned frame with its derived columns.
Sessionize(events) ==
    LET clean == FilterGhostUsers(DropDuplicates(events))
        withChannel == [i \in DOMAIN clean |->
            [client_id |-> clean[i].client_id, timestamp |-> clean[i].timestamp,
             event_name |-> clean[i].event_name, page_url |-> clean[i].page_url,
             referrer |-> clean[i].referrer, event_data |-> clean[i].event_data,
             derived_channel |-> classify_channel(clean[i])]]
        sorted == SortValues(withChannel)
    IN  [i \in DOMAIN sorted |->
            [client_id |-> sorted[i].client_id, timestamp |-> sorted[i].timestamp,
             event_name |-> sorted[i].event_name, page_url |-> sorted[i].page_url,
             referrer |-> sorted[i].referrer, event_data |-> sorted[i].event_data,
             derived_channel |-> sorted[i].derived_channel,
             is_new_session |-> IsNewSession(sorted, i),
             session_id |-> SessionId(sorted, i)]]

\* The rows of one group of groupby('session_id'), in frame order.
GroupRows(df, sid) == { i \in DOMAIN df : df[i].session_id = sid }
First(S) == CHOOSE i \in S : \A j \in S : i <= j
MinOf(S) == CHOOSE x \in S : \A y \in S : x <= y
MaxOf(S) == CHOOSE x \in S : \A y \in S : y <= x

\* Mutant: the channel of a group is that of its last row.
AggChannelLast(df, g) == df[CHOOSE i \in g : \A j \in g : j <= i].derived_channel

\* 'derived_channel': 'first'
AggChannel(df, g) == df[First(g)].derived_channel

\* 'event_name': 'count' counts the rows whose event_name is not null.
AggEvents(df, g) == Cardinality({ i \in g : df[i].event_name # NoName })

\* Lines 59-65: one row per session_id, the groups in the order of their keys.
SilverSessions(df) ==
    LET sids == { df[i].session_id : i \in DOMAIN df }
        pos(sid) == Cardinality({ o \in sids : TextLess(o, sid) }) + 1
        row(sid) ==
            LET g == GroupRows(df, sid)
            IN  [session_id |-> sid,
                 client_id |-> df[First(g)].client_id,
                 session_start |-> MinOf({ df[i].timestamp : i \in g }),
                 session_end |-> MaxOf({ df[i].timestamp : i \in g }),
                 events |-> AggEvents(df, g),
                 channel |-> AggChannel(df, g)]
    IN  [p \in 1..Cardinality(sids) |-> row(CHOOSE sid \in sids : pos(sid) = p)]

\* ------------------------------------------------------ conversion extractor
ConversionNames == {"purchase", "checkout_completed"}

\* A JSON object is the sequence of its <<key, value>> members; a repeated
\* key takes its last value.  An event_data cell is [kind, d] with kind
\*   "nan"    the cell is missing,
\*   "text"   the cell is not JSON,
\*   "scalar" the cell is JSON but no object (a number, a list, null),
\*   "object" the cell is a JSON object with the members d.
Members(d, k) == { i \in DOMAIN d : d[i][1] = k }
GetKey(d, k) ==
    IF Members(d, k) = {} THEN None
    ELSE d[CHOOSE i \in Members(d, k) : \A j \in Members(d, k) : j <= i][2]

\* Mutant: a payload that cannot be read counts as revenue 1.
parse_rev_default_one(x) ==
    IF x.kind # "object" THEN [revenue |-> 1, transaction_id |-> None]
    ELSE LET v == PyOr(PyOr(GetKey(x.d, "value"), GetKey(x.d, "revenue")), Num(0))
         IN  IF FloatOk(v)
             THEN [revenue |-> Float(v), transaction_id |-> GetKey(x.d, "transaction_id")]
             ELSE [revenue |-> 0, transaction_id |-> None]

\* parse_rev: json.loads raises on a missing or non-JSON cell, d.get raises
\* on a non-object, float raises on a non-numeric value; the bare except
\* turns each into (0.0, None).
parse_rev(x) ==
    IF x.kind # "object" THEN [revenue |-> 0, transaction_id |-> None]
    ELSE LET v == PyOr(PyOr(GetKey(x.d, "value"), GetKey(x.d, "revenue")), Num(0))
         IN  IF FloatOk(v)
             THEN [revenue |-> Float(v), transaction_id |-> GetKey(x.d, "transaction_id")]
             ELSE [revenue |-> 0, transaction_id |-> None]

\* The probes of the data-quality check (validate_dataframework.py, 91 and 95).
QcRevenueValue(d) ==
    PyOr(PyOr(GetKey(d, "value"), GetKey(d, "revenue")), GetKey(d, "total"))
QcTransactionId(d) == PyOr(GetKey(d, "transaction_id"), GetKey(d, "order_id"))

\* master_df[master_df['event_name'].isin([...])]
ConversionRows(df) ==
    LET F[i \in 0..Len(df)] ==
            IF i = 0 THEN <<>>
            ELSE IF df[i].event_name \in ConversionNames
                 THEN Append(F[i - 1], df[i]) ELSE F[i - 1]
    IN  F[Len(df)]

\* conversions[['revenue', 'transaction_id']] = event_data.apply(parse_rev)
WithRevenue(c) ==
    [i \in DOMAIN c |->
        [client_id |-> c[i].client_id, timestamp |-> c[i].timestamp,
         event_name |-> c[i].event_name, event_data |-> c[i].event_data,
         session_id |-> c[i].session_id,
         revenue |-> parse_rev(c[i].event_data).revenue,
         transaction_id |-> parse_rev(c[i].event_data).transaction_id]]

\* conversions[conversions['revenue'] > 0]
PositiveRevenue(c) ==
    LET F[i \in 0..Len(c)] ==
            IF i = 0 THEN <<>>
            ELSE IF c[i].revenue > 0 THEN Append(F[i - 1], c[i]) ELSE F[i - 1]
    IN  F[Len(c)]

\* sort_values('timestamp'): the default sort of one column is not stable,
\* so rows with equal timestamps come out in any order.
TimestampOrders(c) ==
    { p \in [DOMAIN c -> DOMAIN c] :
        /\ \A i, j \in DOMAIN c : i # j => p[i] # p[j]
        /\ \A i, j \in DOMAIN c : i < j => c[p[i]].timestamp <= c[p[j]].timestamp }

\* Mutant: every row is kept.
DropDuplicateTransactionsNone(c) == c

\* drop_duplicates('transaction_id'): the first row of each id is kept; the
\* missing id is a key like any other.
DropDuplicateTransactions(c) ==
    LET keep == { i \in DOMAIN c :
                    \A j \in 1..(i - 1) : c[j].transaction_id # c[i].transaction_id }
        F[i \in 0..Len(c)] ==
            IF i = 0 THEN <<>>
            ELSE IF i \in keep THEN Append(F[i - 1], c[i]) ELSE F[i - 1]
    IN  F[Len(c)]

\* Line 78: the frames `conversions` can be after the filter, sort and dedup.
ConversionsOutcomes(df) ==
    LET c == PositiveRevenue(WithRevenue(ConversionRows(df)))
    IN  { DropDuplicateTransactions([i \in DOMAIN c |-> c[p[i]]]) : p \in TimestampOrders(c) }

\* -------------------------------------------------------- attribution engine
\* Mutant: a session that starts at the conversion's own timestamp counts.
InWindowClosed(s, conv) ==
    /\ s.client_id = conv.client_id
    /\ s.session_start <= conv.timestamp
    /\ s.session_start >= conv.timestamp - ATTRIBUTION_WINDOW_DAYS * MinutesPerDay

\* The mask of lines 83-86.
InWindow(s, conv) ==
    /\ s.client_id = conv.client_id
    /\ s.session_start < conv.timestamp
    /\ s.session_start >= conv.timestamp - ATTRIBUTION_WINDOW_DAYS * MinutesPerDay

\* silver_sessions[mask].sort_values('session_start')
UserSessions(silver, conv) ==
    LET m == { i \in DOMAIN silver : InWindow(silver[i], conv) }
        pos(i) == Cardinality({ j \in m : silver[j].session_start < silver[i].session_start })
                  + Cardinality({ j \in m : j < i /\ silver[j].session_start = silver[i].session_start })
                  + 1
    IN  [p \in 1..Cardinality(m) |-> silver[CHOOSE i \in m : pos(i) = p]]

\* Lines 90-103: the row appended for one conversion.
AttributionRow(silver, conv) ==
    LET us == UserSessions(silver, conv)
    IN  IF us # <<>>
        THEN [transaction_id |-> conv.transaction_id, revenue |-> conv.revenue,
              first_click |-> us[1].channel, last_click |-> us[Len(us)].channel]
        ELSE [transaction_id |-> conv.transaction_id, revenue |-> conv.revenue,
              first_click |-> "Unattributed", last_click |-> "Unattributed"]

\* Lines 80-105.
GoldAttribution(silver, convs) ==
    [i \in DOMAIN convs |-> AttributionRow(silver, convs[i])]

\* -------------------------------------------------------------------- state
VARIABLES
    universe,          \* the rows an input file can hold (fixed in a run)
    all_events,        \* the concatenated input frame (line 31)
    master_df,         \* the cleaned, sorted frame with its derived columns
    silver_sessions,   \* the session table
    conversions,       \* the deduplicated positive-revenue conversions
    gold_attribution,  \* the attribution table
    pc                 \* "load", "silver", "gold", "done" or "error"

\* The production monitor (part4-monitoring/code/monitor.py).
VARIABLES
    args,              \* the command line and whether the CSV files load
    raw_df,            \* ProductionMonitor.raw: [cols, rows, event_date]
    gold_df,           \* ProductionMonitor.gold: [cols, rows]
    check_date,        \* ProductionMonitor.check_date (a day number)
    alerts,            \* ProductionMonitor.alerts
    status,            \* ProductionMonitor.status
    mon_pc,            \* the next step of run() and of the main block
    exit_code          \* the exit code of the process, -1 while it runs

\* The data-quality check (part1-data-quality/code/validate_dataframework.py).
VARIABLES
    files,             \* the files the loop has still to visit
    qc_file,           \* the file of the current loop iteration
    stats,             \* its stats container
    report_data,       \* the stats of the files done
    qc_pc              \* the next step of the loop body

pipeVars == <<universe, all_events, master_df, silver_sessions, conversions,
              gold_attribution, pc>>
monVars == <<args, raw_df, gold_df, check_date, alerts, status, mon_pc, exit_code>>
qcVars == <<files, qc_file, stats, report_data, qc_pc>>

vars == <<pipeVars, monVars, qcVars>>

\* ------------------------------------------------------------------- inputs
Event(c, t, name, url, ref, data) ==
    [client_id |-> c, timestamp |-> t, event_name |-> name, page_url |-> url,
     referrer |-> ref, event_data |-> data]

NoData == [kind |-> "nan", d |-> <<>>]
NotJson == [kind |-> "text", d |-> <<>>]
NotObject == [kind |-> "scalar", d |-> <<>>]
Object(d) == [kind |-> "object", d |-> d]

U1 == <<"u1">>
U1S1 == <<"u1", "_S", "1">>
U2 == <<"u2">>

PlainUrl == <<"/">>
CpcUrl == <<"/?", "utm_medium=cpc">>
CpcFacebookUrl == <<"/?", "UTM_MEDIUM=CPC", "&", "utm_source=facebook">>
PaidUrl == <<"/?", "utm_medium=paid", "_social">>
FacebookUrl == <<"/?", "utm_source=facebook">>
InstagramEmailUrl == <<"/?", "utm_source=instagram", "&", "utm_medium=email">>
EmailUrl == <<"/?", "utm_medium=email">>

GoogleRef == <<"https://www.", "Google.", "com">>
FacebookRef == <<"https://l.", "facebook.", "com">>
RedditRef == <<"https://reddi", "t.co", "m">>
GoogleFacebookRef == <<"https://www.", "google.", "com/url?q=", "facebook.", "com">>
OtherRef == <<"https://example.com">>

PayT1 == Object(<< <<"value", Num(50)>>, <<"transaction_id", Str(<<"t1">>)>> >>)
PayT1Late == Object(<< <<"revenue", Num(30)>>, <<"transaction_id", Str(<<"t1">>)>> >>)
PayT2 == Object(<< <<"value", Num(20)>>, <<"transaction_id", Str(<<"t2">>)>> >>)
PayNoId == Object(<< <<"revenue", Num(30)>> >>)
PayTotal == Object(<< <<"total", Num(30)>>, <<"transaction_id", Str(<<"t2">>)>> >>)
PayOrderId == Object(<< <<"value", Num(20)>>, <<"order_id", Str(<<"o1">>)>> >>)
PayZeroValue == Object(<< <<"value", Num(0)>>, <<"revenue", Num(30)>>,
                          <<"transaction_id", Str(<<"t3">>)>> >>)
PayTextValue == Object(<< <<"value", Str(<<"50">>)>>, <<"transaction_id", Str(<<"t4">>)>> >>)
PayBadValue == Object(<< <<"value", Str(<<"abc">>)>>, <<"transaction_id", Str(<<"t5">>)>> >>)
PayNegative == Object(<< <<"value", Num(-5)>>, <<"transaction_id", Str(<<"t6">>)>> >>)

\* Rows for the sessionizer: three clients (one missing), gaps of 0, 10, 30,
\* 35, 40 and 45 minutes, rows without an event_name.
SessionEvents ==
    { Event(U1, t, "page_view", CpcUrl, NaN, NoData) : t \in {0, 10, 40, 45} }
    \cup { Event(U1, t, NoName, PlainUrl, GoogleRef, NoData) : t \in {0, 10, 40, 45} }
    \cup { Event(U1, t, "purchase", PlainUrl, NaN, PayT1) : t \in {0, 10, 40, 45} }
    \cup { Event(U1S1, t, "page_view", CpcUrl, NaN, NoData) : t \in {0, 40} }
    \cup { Event(U1S1, t, "purchase", PlainUrl, NaN, PayT1) : t \in {0, 40} }
    \cup { Event(NaN, 0, "page_view", CpcUrl, NaN, NoData),
           Event(NaN, 0, "purchase", PlainUrl, NaN, PayT1) }

\* Rows for the attribution join: sessions exactly 7 days (10080 minutes)
\* before a conversion, more than 7 days before, and at the conversion itself.
AttributionEvents ==
    { Event(U1, t, "page_view", CpcUrl, NaN, NoData) : t \in {0, 5000, 10080, 10090} }
    \cup { Event(U1, t, "page_view", PlainUrl, NaN, NoData) : t \in {0, 5000, 10080, 10090} }
    \cup { Event(U1, t, "purchase", PlainUrl, GoogleRef, PayT1) : t \in {0, 5000, 10080, 10090} }
    \cup { Event(U1, t, "checkout_completed", EmailUrl, NaN, PayT1Late) : t \in {0, 5000, 10080, 10090} }
    \cup { Event(U2, 0, "page_view", EmailUrl, NaN, NoData),
           Event(U2, 10080, "purchase", PlainUrl, RedditRef, PayT2),
           Event(U2, 10080, "purchase", PlainUrl, RedditRef, PayT1) }

\* Rows for the payload parser: every kind of event_data cell.
Payloads ==
    { NoData, NotJson, NotObject, PayT1, PayT1Late, PayNoId, PayTotal, PayOrderId,
      PayZeroValue, PayTextValue, PayBadValue, PayNegative }
PayloadEvents ==
    { Event(U1, 0, "purchase", PlainUrl, NaN, x) : x \in Payloads }
    \cup { Event(U1, 10, "purchase", PlainUrl, NaN, x) : x \in {NotJson, PayT1, PayNoId} }
    \cup { Event(U1, t, "page_view", CpcUrl, NaN, NoData) : t \in {0, 10} }
    \cup { Event(NaN, 0, "purchase", PlainUrl, NaN, NotJson) }

\* Rows for the classifier: every page_url with a missing and with a
\* search-engine referrer, every referrer with a plain page_url.
Urls == { NaN, PlainUrl, CpcUrl, CpcFacebookUrl, PaidUrl, FacebookUrl, InstagramEmailUrl, EmailUrl }
Referrers == { NaN, GoogleRef, FacebookRef, RedditRef, GoogleFacebookRef, OtherRef }
ClassifyEvents ==
    { Event(U1, 0, "page_view", u, r, NoData) : u \in Urls, r \in {NaN, GoogleRef} }
    \cup { Event(U1, 0, "page_view", PlainUrl, r, NoData) : r \in Referrers }
    \cup { Event(U1, 0, "page_view", EmailUrl, FacebookRef, NoData),
           Event(U1, 0, "page_view", NaN, OtherRef, NoData),
           Event(U1, 0, "purchase", PlainUrl, NaN, PayT1) }

\* ------------------------------------------------------------------ actions
\* The monitor and the quality check are other programs: not started.
MonitorIdle ==
    /\ args = [check_date |-> 0, loadable |-> FALSE]
    /\ raw_df = [cols |-> {}, rows |-> <<>>, event_date |-> FALSE]
    /\ gold_df = [cols |-> {}, rows |-> <<>>]
    /\ check_date = 0
    /\ alerts = <<>>
    /\ status = "GREEN"
    /\ mon_pc = "off"
    /\ exit_code = -1
QcIdle ==
    /\ files = <<>>
    /\ qc_file = [cols |-> {}, rows |-> 0, nulls |-> 0, readable |-> TRUE]
    /\ stats = [file |-> qc_file, status |-> "PASS", alerts |-> <<>>]
    /\ report_data = <<>>
    /\ qc_pc = "off"
PipelineIdle ==
    /\ universe = {}
    /\ all_events = <<>>
    /\ master_df = <<>>
    /\ silver_sessions = <<>>
    /\ conversions = <<>>
    /\ gold_attribution = <<>>
    /\ pc = "off"

InitWith(U) ==
    /\ universe = U
    /\ all_events = <<>>
    /\ master_df = <<>>
    /\ silver_sessions = <<>>
    /\ conversions = <<>>
    /\ gold_attribution = <<>>
    /\ pc = "load"
    /\ MonitorIdle
    /\ QcIdle

\* Lines 17-31: one more row read from the input files.
Load ==
    /\ pc = "load"
    /\ Len(all_events) < MaxEvents
    /\ \E e \in universe : all_events' = Append(all_events, e)
    /\ UNCHANGED <<universe, master_df, silver_sessions, conversions, gold_attribution, pc>>
    /\ UNCHANGED <<monVars, qcVars>>

\* Lines 31-65: clean, classify, sessionize, build the session table.
BuildSilver ==
    /\ pc = "load"
    /\ master_df' = Sessionize(all_events)
    /\ silver_sessions' = SilverSessions(master_df')
    /\ pc' = "silver"
    /\ UNCHANGED <<universe, all_events, conversions, gold_attribution>>
    /\ UNCHANGED <<monVars, qcVars>>

\* Line 77 with no conversion event in the frame: apply returns an empty
\* Series and the two-column assignment raises ValueError.
ExtractRaises ==
    /\ pc = "silver"
    /\ ConversionRows(master_df) = <<>>
    /\ pc' = "error"
    /\ UNCHANGED <<universe, all_events, master_df, silver_sessions, conversions,
                   gold_attribution>>
    /\ UNCHANGED <<monVars, qcVars>>

\* Lines 68-78.
ExtractConversions ==
    /\ pc = "silver"
    /\ ConversionRows(master_df) # <<>>
    /\ conversions' \in ConversionsOutcomes(master_df)
    /\ pc' = "gold"
    /\ UNCHANGED <<universe, all_events, master_df, silver_sessions, gold_attribution>>
    /\ UNCHANGED <<monVars, qcVars>>

\* Lines 80-110: one attribution row per conversion, then both tables saved.
Attribute ==
    /\ pc = "gold"
    /\ gold_attribution' = GoldAttribution(silver_sessions, conversions)
    /\ pc' = "done"
    /\ UNCHANGED <<universe, all_events, master_df, silver_sessions, conversions>>
    /\ UNCHANGED <<monVars, qcVars>>

Next == Load \/ BuildSilver \/ ExtractRaises \/ ExtractConversions \/ Attribute

Init == InitWith(SessionEvents)
Spec == Init /\ [][Next]_vars

InitAttribution == InitWith(AttributionEvents)
SpecAttribution == InitAttribution /\ [][Next]_vars

InitPayload == InitWith(PayloadEvents)
SpecPayload == InitPayload /\ [][Next]_vars

InitClassify == InitWith(ClassifyEvents)
SpecClassify == InitClassify /\ [][Next]_vars

\* ------------------------------------------------------------------- claims
\* The input row a row of master_df was made from.
EventOf(r) == Event(r.client_id, r.timestamp, r.event_name, r.page_url, r.referrer, r.event_data)

\* The input rows left once exact duplicates and null-client rows are removed.
CleanEvents == { all_events[i] : i \in { j \in DOMAIN all_events : all_events[j].client_id # NaN } }

\* The place of an event in the input: that of its first copy.
InputIndex(e) == CHOOSE i \in DOMAIN all_events :
                    all_events[i] = e /\ \A j \in DOMAIN all_events : all_events[j] = e => i <= j

Sessionized == pc \in {"silver", "gold", "done", "error"}

\* The rows of master_df in a session of the session table.
Rows(s) == { i \in DOMAIN master_df : master_df[i].session_id = s.session_id }

\* C1: the sessions partition each client's events.  Every event left after
\* cleaning is one row of the sessionized frame and so has one session_id;
\* that id names exactly one row of the session table, a session of the
\* event's own client; every session of the table has an event of its client.
C1_SessionsPartitionEvents ==
    Sessionized =>
        /\ \A e \in CleanEvents :
              Cardinality({ i \in DOMAIN master_df : EventOf(master_df[i]) = e }) = 1
        /\ \A i \in DOMAIN master_df : EventOf(master_df[i]) \in CleanEvents
        /\ \A i \in DOMAIN master_df :
              LET hit == { k \in DOMAIN silver_sessions :
                             silver_sessions[k].session_id = master_df[i].session_id }
              IN  /\ Cardinality(hit) = 1
                  /\ \A k \in hit : silver_sessions[k].client_id = master_df[i].client_id
        /\ \A k \in DOMAIN silver_sessions :
              \E i \in Rows(silver_sessions[k]) :
                  master_df[i].client_id = silver_sessions[k].client_id

\* C1 witness: a finished run on a batch with a null-client row, where two
\* clients, one's id a prefix of the other's session id, each got a session.
C1_Witness ==
    /\ pc = "done"
    /\ Len(all_events) > Len(master_df)
    /\ \E k, l \in DOMAIN silver_sessions :
          /\ silver_sessions[k].client_id = U1
          /\ silver_sessions[l].client_id = U1S1

\* Rows i < j are consecutive rows of one client in the sorted frame.
ConsecutiveOfClient(i, j) ==
    /\ i < j
    /\ master_df[i].client_id = master_df[j].client_id
    /\ \A k \in (i + 1)..(j - 1) : master_df[k].client_id # master_df[i].client_id

\* The <<start, end>> pairs of one client's sessions.
Bounds(c) == { <<silver_sessions[k].session_start, silver_sessions[k].session_end>> :
                 k \in { l \in DOMAIN silver_sessions : silver_sessions[l].client_id = c } }

\* C2: with a client's events in timestamp order, two consecutive events of
\* one session are at most 30 minutes apart (0 and exactly 30 do not split),
\* two consecutive events in different sessions are more than 30 minutes
\* apart, and events at 0, 10 and 45 minutes give sessions [0,10] and [45,45].
C2_InactivityBoundary ==
    Sessionized =>
        /\ \A i, j \in DOMAIN master_df :
              ConsecutiveOfClient(i, j) =>
                  LET gap == master_df[j].timestamp - master_df[i].timestamp
                  IN  /\ gap >= 0
                      /\ (master_df[i].session_id = master_df[j].session_id) <=> (gap <= 30)
        /\ \A c \in {U1, U1S1, U2} :
              { e.timestamp : e \in { x \in CleanEvents : x.client_id = c } } = {0, 10, 45}
                  => Bounds(c) = { <<0, 10>>, <<45, 45>> }

\* C2 witness: scenario A, with one event at each of 0, 10 and 45 minutes.
C2_Witness ==
    /\ pc = "done"
    /\ Len(master_df) = 3
    /\ { master_df[i].timestamp : i \in DOMAIN master_df } = {0, 10, 45}
    /\ \A i \in DOMAIN master_df : master_df[i].client_id = U1
    /\ Bounds(U1) = { <<0, 10>>, <<45, 45>> }

\* The first event of a session: the member with the smallest timestamp,
\* the earliest in the input among those.
FirstEvent(s) ==
    LET m == { EventOf(master_df[i]) : i \in Rows(s) }
    IN  CHOOSE e \in m : \A o \in m :
            \/ e.timestamp < o.timestamp
            \/ e.timestamp = o.timestamp /\ InputIndex(e) <= InputIndex(o)

\* C7: the channel of every session is the classifier's output for the first
\* event of the session (smallest timestamp, then input order).
C7_ChannelOfFirstEvent ==
    Sessionized =>
        \A k \in DOMAIN silver_sessions :
            silver_sessions[k].channel = classify_channel(FirstEvent(silver_sessions[k]))

\* C7 witness: a finished run with a session whose two first events share a
\* timestamp and classify differently.
C7_Witness ==
    /\ pc = "done"
    /\ \E k \in DOMAIN silver_sessions :
          \E i, j \in Rows(silver_sessions[k]) :
              /\ master_df[i].timestamp = silver_sessions[k].session_start
              /\ master_df[j].timestamp = silver_sessions[k].session_start
              /\ master_df[i].derived_channel # master_df[j].derived_channel

\* C9: every session has start_time <= end_time and event_count >= 1, start
\* and end are the least and greatest member timestamps, event_count is the
\* number of members whether or not they carry an event_name, and a session
\* of one event starts and ends at the same time.
C9_SessionShape ==
    Sessionized =>
        \A k \in DOMAIN silver_sessions :
            LET s == silver_sessions[k]
                ts == { master_df[i].timestamp : i \in Rows(s) }
            IN  /\ s.session_start <= s.session_end
                /\ s.events >= 1
                /\ s.session_start \in ts /\ \A t \in ts : s.session_start <= t
                /\ s.session_end \in ts /\ \A t \in ts : t <= s.session_end
                /\ s.events = Cardinality(Rows(s))
                /\ (Cardinality(Rows(s)) = 1 => s.session_start = s.session_end)

\* The conversion events of the sessionized frame whose payload gives a
\* revenue above 0.
PositiveConversions ==
    { i \in DOMAIN master_df :
        /\ master_df[i].event_name \in ConversionNames
        /\ parse_rev(master_df[i].event_data).revenue > 0 }
TransactionOf(i) == parse_rev(master_df[i].event_data).transaction_id
RevenueOf(i) == parse_rev(master_df[i].event_data).revenue

\* The sessions of the conversion's client that start in [ts - 7 days, ts).
Candidates(conv) ==
    { k \in DOMAIN silver_sessions :
        /\ silver_sessions[k].client_id = conv.client_id
        /\ conv.timestamp - 7 * 1440 <= silver_sessions[k].session_start
        /\ silver_sessions[k].session_start < conv.timestamp }

\* C3: each conversion is attributed over the sessions of its client with
\* ts - 7 days <= start_time < ts.  With no such session both clicks are
\* 'Unattributed'; otherwise first_click is the channel of the one that
\* starts first and last_click the channel of the one that starts last.
C3_AttributionWindow ==
    pc = "done" =>
        /\ Len(gold_attribution) = Len(conversions)
        /\ \A i \in DOMAIN gold_attribution :
              LET cand == Candidates(conversions[i])
                  g == gold_attribution[i]
              IN  IF cand = {}
                  THEN g.first_click = "Unattributed" /\ g.last_click = "Unattributed"
                  ELSE /\ \E k \in cand :
                            /\ \A l \in cand : silver_sessions[k].session_start
                                                 <= silver_sessions[l].session_start
                            /\ g.first_click = silver_sessions[k].channel
                       /\ \E k \in cand :
                            /\ \A l \in cand : silver_sessions[l].session_start
                                                 <= silver_sessions[k].session_start
                            /\ g.last_click = silver_sessions[k].channel

\* C3 witness: a conversion at day 7 whose own session starts at day 7 and is
\* left out, with a paid-search session at minute 0 (exactly 7 days before)
\* as first click and a later direct session as last click.
C3_Witness ==
    /\ pc = "done"
    /\ \E i \in DOMAIN gold_attribution :
          /\ conversions[i].timestamp = 10080
          /\ \E k \in Candidates(conversions[i]) : silver_sessions[k].session_start = 0
          /\ \E k \in DOMAIN silver_sessions :
                /\ silver_sessions[k].client_id = conversions[i].client_id
                /\ silver_sessions[k].session_start = 10080
          /\ gold_attribution[i].first_click = "Paid Search"
          /\ gold_attribution[i].last_click = "Direct"

\* The attribution rows that carry a transaction id.
GoldOf(tid) == { k \in DOMAIN gold_attribution : gold_attribution[k].transaction_id = tid }

\* C4: conversions that share a transaction_id give one attribution row, the
\* earliest by timestamp.  Every id carried by a conversion with revenue > 0
\* has exactly one row, the row's revenue is that of an earliest such
\* conversion, and there are as many rows as distinct ids among them.
C4_DedupKeepsEarliest ==
    pc = "done" =>
        /\ \A i \in PositiveConversions :
              LET same == { j \in PositiveConversions : TransactionOf(j) = TransactionOf(i) }
                  earliest == { j \in same :
                                  \A l \in same : master_df[j].timestamp <= master_df[l].timestamp }
              IN  /\ Cardinality(GoldOf(TransactionOf(i))) = 1
                  /\ \A k \in GoldOf(TransactionOf(i)) :
                        gold_attribution[k].revenue \in { RevenueOf(j) : j \in earliest }
        /\ Len(gold_attribution) = Cardinality({ TransactionOf(i) : i \in PositiveConversions })

\* C4 witness: scenario E, two conversions with one id at different times and
\* different revenues, and a single row with the earlier one's revenue.
C4_Witness ==
    /\ pc = "done"
    /\ Len(gold_attribution) = 1
    /\ \E i, j \in PositiveConversions :
          /\ TransactionOf(i) = TransactionOf(j)
          /\ master_df[i].timestamp < master_df[j].timestamp
          /\ RevenueOf(i) # RevenueOf(j)
          /\ gold_attribution[1].revenue = RevenueOf(i)

\* C5: a conversion whose payload is missing, unparsable or gives no usable
\* transaction id or revenue produces no attribution row: no row has an
\* absent transaction_id, and the rows number the distinct usable ids of the
\* conversions with revenue > 0 (so {"revenue": 30} alone gives no row).
C5_UnusableConversionDropped ==
    pc = "done" =>
        /\ \A k \in DOMAIN gold_attribution : gold_attribution[k].transaction_id # None
        /\ Len(gold_attribution) =
              Cardinality({ TransactionOf(i) :
                              i \in { j \in PositiveConversions : Truthy(TransactionOf(j)) } })

\* C6: revenue is probed as value, revenue, total and the identity as
\* transaction_id, order_id.  A conversion whose payload gives a positive
\* amount and an id under those probes has an attribution row with that id,
\* and if no other conversion shares the id, with that amount.
C6_PayloadKeyProbes ==
    pc = "done" =>
        \A i \in DOMAIN master_df :
            LET r == master_df[i]
                amount == QcRevenueValue(r.event_data.d)
                tid == QcTransactionId(r.event_data.d)
            IN  ( /\ r.event_name \in ConversionNames
                  /\ r.event_data.kind = "object"
                  /\ FloatOk(amount) /\ Float(amount) > 0
                  /\ Truthy(tid) )
                => \E k \in DOMAIN gold_attribution :
                      /\ gold_attribution[k].transaction_id = tid
                      /\ ( (\A j \in DOMAIN master_df :
                               QcTransactionId(master_df[j].event_data.d) = tid
                                  => master_df[j].event_data = r.event_data)
                           => gold_attribution[k].revenue = Float(amount) )

\* The label of each rule of the decision list, in order.
ChannelLabels == <<"Paid Search", "Paid Social", "Email", "Organic Search",
                   "Organic Social", "Direct", "Referral">>

\* Rule k of the decision list matches the lower-cased url and referrer.
RuleMatches(k, url, ref) ==
    CASE k = 1 -> Rule1(url)
      [] k = 2 -> Rule2(url)
      [] k = 3 -> Rule3(url)
      [] k = 4 -> Rule4(ref)
      [] k = 5 -> Rule5(ref)
      [] k = 6 -> Rule6(ref)
      [] OTHER -> TRUE

\* C8: classify_channel is total and a decision list.  Every event gets one
\* of the seven labels, that of the first rule it matches; a cpc URL with a
\* facebook source is Paid Search, an email URL with a search-engine
\* referrer is Email.
C8_OrderedDecisionList ==
    Sessionized =>
        \A i \in DOMAIN master_df :
            LET r == master_df[i]
                url == Lower(PyStr(r.page_url))
                ref == Lower(PyStr(r.referrer))
                matched == { k \in 1..7 : RuleMatches(k, url, ref) }
                first == CHOOSE k \in matched : \A l \in matched : k <= l
            IN  /\ r.derived_channel \in { ChannelLabels[k] : k \in 1..7 }
                /\ r.derived_channel = ChannelLabels[first]
                /\ (r.page_url = CpcFacebookUrl => r.derived_channel = "Paid Search")
                /\ (r.page_url = EmailUrl /\ r.referrer = GoogleRef
                       => r.derived_channel = "Email")

\* C8 witness: a finished run that classified a cpc URL with a facebook
\* source and an email URL with a search-engine referrer.
C8_Witness ==
    /\ pc = "done"
    /\ \E i, j \in DOMAIN master_df :
          /\ master_df[i].page_url = CpcFacebookUrl
          /\ master_df[i].derived_channel = "Paid Search"
          /\ master_df[j].page_url = EmailUrl
          /\ master_df[j].referrer = GoogleRef
          /\ master_df[j].derived_channel = "Email"

\* A conversion event whose event_data is missing, not JSON or no object.
MalformedConversion(e) ==
    e.event_name \in ConversionNames /\ e.event_data.kind # "object"

\* The batch without its malformed conversion events.
WithoutMalformed(events) ==
    LET F[i \in 0..Len(events)] ==
            IF i = 0 THEN <<>>
            ELSE IF MalformedConversion(events[i]) THEN F[i - 1]
                 ELSE Append(F[i - 1], events[i])
    IN  F[Len(events)]

SessionBounds(silver) ==
    { <<silver[k].client_id, silver[k].session_start, silver[k].session_end>> :
        k \in DOMAIN silver }
TransactionsAndRevenues(gold) ==
    [k \in DOMAIN gold |-> <<gold[k].transaction_id, gold[k].revenue>>]

\* C10 as stated: adding conversion events with a malformed, non-JSON,
\* non-object or missing payload raises no error and leaves the session
\* boundaries and the attribution rows of the other conversions as they are
\* without those events: every session of the batch without them is still a
\* session with the same start and end, and the attribution table is the same.
C10_MalformedChangesNothing ==
    pc \in {"done", "error"} =>
        \A m0 \in { Sessionize(WithoutMalformed(all_events)) } :
        \A s0 \in { SilverSessions(m0) } :
            /\ (ConversionRows(m0) # <<>> => pc = "done")
            /\ pc = "done" =>
                  /\ SessionBounds(s0) \subseteq SessionBounds(silver_sessions)
                  /\ gold_attribution \in
                        { GoldAttribution(s0, c) : c \in ConversionsOutcomes(m0) }

\* C10 amended: adding such events raises no error, gives them no attribution
\* row and leaves the transaction_id and revenue of every attribution row as
\* they are without those events.  (The added events are sessionized like any
\* other, so session boundaries and first/last clicks can change.)
C10_MalformedAddsNoRow ==
    pc \in {"done", "error"} =>
        \A m0 \in { Sessionize(WithoutMalformed(all_events)) } :
        \A s0 \in { SilverSessions(m0) } :
            /\ (ConversionRows(m0) # <<>> => pc = "done")
            /\ pc = "done" =>
                  TransactionsAndRevenues(gold_attribution) \in
                      { TransactionsAndRevenues(GoldAttribution(s0, c)) :
                          c \in ConversionsOutcomes(m0) }

\* C10 witness: a finished run on a batch with a malformed conversion event
\* that moved the start of the session of another conversion, which has its
\* row.
C10_Witness ==
    /\ pc = "done"
    /\ \E i \in DOMAIN master_df : MalformedConversion(EventOf(master_df[i]))
    /\ ~ (SessionBounds(SilverSessions(Sessionize(WithoutMalformed(all_events))))
            \subseteq SessionBounds(silver_sessions))
    /\ Len(gold_attribution) = 1
    /\ gold_attribution[1].first_click # "Unattributed"


\* =================================================== the production monitor
\* Days are numbered; a frame's rows carry the day of their timestamp.
MaxRawRows == 3
MaxGoldRows == 2

REQUIRED_RAW_COLS == <<"client_id", "timestamp", "page_url", "referrer">>
REQUIRED_GOLD_COLS ==
    <<"transaction_id", "revenue", "first_click_channel", "last_click_channel",
      "conversion_time">>
PAID_CHANNELS == {"Paid Search", "Paid Social"}
PAID_REV_THRESHOLD == 1000
\* The four rates below are written in hundredths (0.50, 0.05, 0.90, 0.40).
ROW_VOLUME_DELTA == 50
NULL_CLIENTID_THRESHOLD == 5
REFERRER_BLACKOUT_THRESHOLD == 90
UNATTRIBUTED_SHARE_THRESHOLD == 40

\* NaT, the date of no timestamp: equal to no row's date.
NaT == 0
\* datetime.now().date(): a day after every day of the data.
Today == 3

RECURSIVE SumOf(_, _)
SumOf(f, S) ==
    IF S = {} THEN 0
    ELSE LET x == CHOOSE y \in S : TRUE IN f[x] + SumOf(f, S \ {x})

\* ProductionMonitor._add_alert on m = [alerts, status].
add_alert(m, severity, code) ==
    [alerts |-> Append(m.alerts, [severity |-> severity, code |-> code]),
     status |-> IF severity = "P0" THEN "RED"
                ELSE IF severity = "P1" /\ m.status # "RED" THEN "YELLOW"
                ELSE m.status]

\* One loop of check_schema_integrity: a P0 alert per missing column.
RECURSIVE MissingCols(_, _, _, _)
MissingCols(m, required, cols, code) ==
    IF required = <<>> THEN m
    ELSE MissingCols(IF Head(required) \in cols THEN m
                     ELSE add_alert(m, "P0", code),
                     Tail(required), cols, code)

check_schema_integrity(m, raw, gold) ==
    MissingCols(MissingCols(m, REQUIRED_RAW_COLS, raw.cols, "MISSING_RAW_COL"),
                REQUIRED_GOLD_COLS, gold.cols, "MISSING_GOLD_COL")

\* daily_counts: the days with rows, and the rows of a day.
RowsOn(frame, d) == {i \in DOMAIN frame.rows : frame.rows[i].date = d}
EventDates(raw) == {raw.rows[i].date : i \in DOMAIN raw.rows}
\* rolling(window=7, min_periods=1).mean().shift(1): the days of the average.
RollingDays(raw, d) ==
    LET prev == {x \in EventDates(raw) : x < d}
    IN {x \in prev : Cardinality({y \in prev : y > x}) < 7}
VolumeAnomaly(raw, d) ==
    LET days == RollingDays(raw, d)
        total == SumOf([x \in days |-> Cardinality(RowsOn(raw, x))], days)
        count == Cardinality(RowsOn(raw, d))
        n == Cardinality(days)
    IN /\ days # {}
       /\ \/ 100 * count * n < (100 - ROW_VOLUME_DELTA) * total
          \/ 100 * count * n > (100 + ROW_VOLUME_DELTA) * total

check_row_volume(m, raw, d) ==
    IF "timestamp" \notin raw.cols THEN m
    ELSE IF RowsOn(raw, d) = {} THEN add_alert(m, "P0", "NO_DATA")
    ELSE IF VolumeAnomaly(raw, d) THEN add_alert(m, "P0", "VOLUME_ANOMALY")
    ELSE m


\* check_data_quality raises KeyError when check_row_volume set no event_date.
DataQualityRaises(raw) == ~raw.event_date
check_data_quality(m, raw, d) ==
    LET daily_raw == RowsOn(raw, d)
        n == Cardinality(daily_raw)
        nulls == Cardinality({i \in daily_raw : raw.rows[i].client_null})
        missing == Cardinality({i \in daily_raw : raw.rows[i].ref_missing})
        m1 == IF "client_id" \in raw.cols /\ 100 * nulls > NULL_CLIENTID_THRESHOLD * n
              THEN add_alert(m, "P1", "GHOST_USERS") ELSE m
    IN IF daily_raw = {} THEN m
       ELSE IF "referrer" \in raw.cols
               /\ 100 * missing > REFERRER_BLACKOUT_THRESHOLD * n
       THEN add_alert(m1, "P0", "REFERRER_BLACKOUT") ELSE m1

\* daily_gold[...]['revenue'].sum() over the rows of the day in channels C.
Revenue(gold, d, C) ==
    LET daily_gold == {i \in RowsOn(gold, d) : gold.rows[i].last_click_channel \in C}
    IN SumOf([i \in daily_gold |-> gold.rows[i].revenue], daily_gold)
Channels(gold) == {gold.rows[i].last_click_channel : i \in DOMAIN gold.rows}
total_rev(gold, d) == Revenue(gold, d, Channels(gold))

\* check_business_logic raises KeyError on a column it reads without a test.
BusinessLogicRaises(gold, d) ==
    /\ "conversion_time" \in gold.cols
    /\ \/ "revenue" \notin gold.cols
       \/ total_rev(gold, d) # 0 /\ "last_click_channel" \notin gold.cols
check_business_logic(m, gold, d) ==
    LET total == total_rev(gold, d)
        paid_rev == Revenue(gold, d, PAID_CHANNELS)
        unattributed_rev == Revenue(gold, d, {"Unattributed"})
        m1 == IF total > PAID_REV_THRESHOLD /\ paid_rev = 0
              THEN add_alert(m, "P0", "PAID_BLINDNESS") ELSE m
        high == IF total > 0
                THEN 100 * unattributed_rev > UNATTRIBUTED_SHARE_THRESHOLD * total
                ELSE 100 * unattributed_rev < UNATTRIBUTED_SHARE_THRESHOLD * total
    IN IF "conversion_time" \notin gold.cols THEN m
       ELSE IF total = 0 THEN add_alert(m, "P0", "ZERO_REVENUE")
       ELSE IF high THEN add_alert(m1, "P1", "HIGH_UNATTRIBUTED") ELSE m1

\* ProductionMonitor.__init__: the day to check.
InitCheckDate(arg, gold) ==
    IF arg # 0 THEN arg
    ELSE IF "conversion_time" \in gold.cols
    THEN IF gold.rows = <<>> THEN NaT
         ELSE MaxOf({gold.rows[i].date : i \in DOMAIN gold.rows})
    ELSE Today

\* ---- inputs of the monitor
RawRow(d, cn, rm) == [date |-> d, client_null |-> cn, ref_missing |-> rm]
GoldRow(d, r, ch) == [date |-> d, revenue |-> r, last_click_channel |-> ch]
RawRowTypes ==
    <<RawRow(1, FALSE, FALSE), RawRow(2, FALSE, FALSE), RawRow(2, TRUE, FALSE),
      RawRow(2, FALSE, TRUE)>>
GoldRowTypes ==
    <<GoldRow(1, 1200, "Paid Search"), GoldRow(2, 0, "Organic"),
      GoldRow(2, 600, "Paid Search"), GoldRow(2, -600, "Organic"),
      GoldRow(2, 1200, "Organic"), GoldRow(2, 600, "Unattributed"),
      GoldRow(2, 1200, "Unattributed")>>
\* The frames of at most n rows of the types T; the checks count and sum, so
\* one order per collection of rows is enough.
Frames(T, n) ==
    LET idx == UNION {[1..k -> DOMAIN T] : k \in 0..n}
    IN {[i \in DOMAIN f |-> T[f[i]]] :
            f \in {g \in idx : \A i, j \in DOMAIN g : i < j => g[i] <= g[j]}}
Without(required, c) == {required[i] : i \in DOMAIN required} \ {c}
RawColumnSets ==
    {Without(REQUIRED_RAW_COLS, c) : c \in {"", "timestamp", "client_id", "referrer"}}
GoldColumnSets ==
    {Without(REQUIRED_GOLD_COLS, c) :
        c \in {"", "conversion_time", "revenue", "last_click_channel"}}


\* ---- the main block and run(), one action per step
Monitor == [alerts |-> alerts, status |-> status]
SetMonitor(m) == alerts' = m.alerts /\ status' = m.status

\* The CSV files do not load, or no raw file exists: exit code 2.
MainLoadFails ==
    /\ mon_pc = "main"
    /\ ~args.loadable
    /\ mon_pc' = "exit"
    /\ exit_code' = 2
    /\ UNCHANGED <<args, raw_df, gold_df, check_date, alerts, status>>
    /\ UNCHANGED <<pipeVars, qcVars>>

NewMonitor ==
    /\ mon_pc = "main"
    /\ args.loadable
    /\ check_date' = InitCheckDate(args.check_date, gold_df)
    /\ alerts' = <<>>
    /\ status' = "GREEN"
    /\ mon_pc' = "schema"
    /\ UNCHANGED <<args, raw_df, gold_df, exit_code>>
    /\ UNCHANGED <<pipeVars, qcVars>>

CheckSchemaIntegrity ==
    /\ mon_pc = "schema"
    /\ SetMonitor(check_schema_integrity(Monitor, raw_df, gold_df))
    /\ mon_pc' = "volume"
    /\ UNCHANGED <<args, raw_df, gold_df, check_date, exit_code>>
    /\ UNCHANGED <<pipeVars, qcVars>>

CheckRowVolume ==
    /\ mon_pc = "volume"
    /\ SetMonitor(check_row_volume(Monitor, raw_df, check_date))
    /\ raw_df' = [raw_df EXCEPT !.event_date = "timestamp" \in raw_df.cols]
    /\ mon_pc' = "quality"
    /\ UNCHANGED <<args, gold_df, check_date, exit_code>>
    /\ UNCHANGED <<pipeVars, qcVars>>

CheckDataQuality ==
    /\ mon_pc = "quality"
    /\ ~DataQualityRaises(raw_df)
    /\ SetMonitor(check_data_quality(Monitor, raw_df, check_date))
    /\ mon_pc' = "business"
    /\ UNCHANGED <<args, raw_df, gold_df, check_date, exit_code>>
    /\ UNCHANGED <<pipeVars, qcVars>>

CheckDataQualityRaises ==
    /\ mon_pc = "quality"
    /\ DataQualityRaises(raw_df)
    /\ mon_pc' = "raised"
    /\ UNCHANGED <<args, raw_df, gold_df, check_date, alerts, status, exit_code>>
    /\ UNCHANGED <<pipeVars, qcVars>>

CheckBusinessLogic ==
    /\ mon_pc = "business"
    /\ ~BusinessLogicRaises(gold_df, check_date)
    /\ SetMonitor(check_business_logic(Monitor, gold_df, check_date))
    /\ mon_pc' = "returned"
    /\ UNCHANGED <<args, raw_df, gold_df, check_date, exit_code>>
    /\ UNCHANGED <<pipeVars, qcVars>>

CheckBusinessLogicRaises ==
    /\ mon_pc = "business"
    /\ BusinessLogicRaises(gold_df, check_date)
    /\ mon_pc' = "raised"
    /\ UNCHANGED <<args, raw_df, gold_df, check_date, alerts, status, exit_code>>
    /\ UNCHANGED <<pipeVars, qcVars>>

\* run() returned: the exit code of the last lines of the main block.
Exit ==
    /\ mon_pc = "returned"
    /\ exit_code' = IF status = "RED" THEN 3 ELSE 0
    /\ mon_pc' = "exit"
    /\ UNCHANGED <<args, raw_df, gold_df, check_date, alerts, status>>
    /\ UNCHANGED <<pipeVars, qcVars>>

\* run() raised: nothing catches it, the interpreter ends with exit code 1.
Traceback ==
    /\ mon_pc = "raised"
    /\ exit_code' = 1
    /\ mon_pc' = "exit"
    /\ UNCHANGED <<args, raw_df, gold_df, check_date, alerts, status>>
    /\ UNCHANGED <<pipeVars, qcVars>>

NextMonitor ==
    \/ MainLoadFails
    \/ NewMonitor
    \/ CheckSchemaIntegrity
    \/ CheckRowVolume
    \/ CheckDataQuality
    \/ CheckDataQualityRaises
    \/ CheckBusinessLogic
    \/ CheckBusinessLogicRaises
    \/ Exit
    \/ Traceback

InitMonitor ==
    /\ PipelineIdle
    /\ QcIdle
    /\ args \in [check_date : {0, 2}, loadable : BOOLEAN]
    /\ raw_df \in [cols : RawColumnSets, rows : Frames(RawRowTypes, MaxRawRows),
                   event_date : {FALSE}]
    /\ gold_df \in [cols : GoldColumnSets, rows : Frames(GoldRowTypes, MaxGoldRows)]
    /\ ~args.loadable => raw_df.rows = <<>> /\ gold_df.rows = <<>>
    /\ check_date = NaT
    /\ alerts = <<>>
    /\ status = "GREEN"
    /\ mon_pc = "main"
    /\ exit_code = -1
SpecMonitor == InitMonitor /\ [][NextMonitor]_vars


\* ------------------------------------------------------ claims on the monitor
RunEnded == mon_pc \in {"returned", "raised"}
Codes == {alerts[i].code : i \in DOMAIN alerts}
Severities == {alerts[i].severity : i \in DOMAIN alerts}
ZeroRevenueDay ==
    /\ {"conversion_time", "revenue"} \subseteq gold_df.cols
    /\ total_rev(gold_df, check_date) = 0

\* C11: whenever the gold table has a conversion_time column and the revenue of
\* its rows of check_date sums to 0 (no such row included), run() returns RED
\* with a ZERO_REVENUE alert, and neither the paid-blindness nor the
\* unattributed-share check has added an alert.
C11_ZeroRevenueBlocks ==
    (RunEnded /\ ZeroRevenueDay) =>
        /\ mon_pc = "returned"
        /\ status = "RED"
        /\ "ZERO_REVENUE" \in Codes
        /\ Codes \cap {"PAID_BLINDNESS", "HIGH_UNATTRIBUTED"} = {}


Rank(s) == CASE s = "GREEN" -> 0 [] s = "YELLOW" -> 1 [] s = "RED" -> 2
StatusOfAlerts ==
    /\ status = "RED" <=> "P0" \in Severities
    /\ status = "YELLOW" <=> ("P1" \in Severities /\ "P0" \notin Severities)
    /\ status = "GREEN" <=> Severities \cap {"P0", "P1"} = {}
ExitCodeOfAlerts ==
    exit_code # -1 => (exit_code = 3 <=> "P0" \in Severities)

\* C12: after any sequence of _add_alert calls the status is RED iff a P0 alert
\* was recorded, YELLOW iff a P1 and no P0 alert was recorded, GREEN iff
\* neither; the status only escalates (a later P1 never turns RED into YELLOW);
\* and the process exit code is 3 exactly when some P0 alert was raised.
C12_StatusAndExitCode ==
    /\ [](StatusOfAlerts /\ ExitCodeOfAlerts)
    /\ [][Rank(status') >= Rank(status)]_vars


\* ================================================= the data-quality check
\* run_exhaustive_quality_check: a file is [cols, rows, nulls, readable], the
\* columns of its CSV, its number of rows and of rows with a null client_id.
MaxFiles == 2

\* Lines 58-65: schema drift, then the missing referrer column.
SchemaDrift(f) == "clientId" \in f.cols /\ "client_id" \notin f.cols
SchemaChecks(st, f) ==
    LET s1 == IF SchemaDrift(f)
              THEN [st EXCEPT !.alerts = Append(@, "SCHEMA_DRIFT"),
                              !.status = "WARNING"]
              ELSE st
    IN IF "referrer" \notin f.cols
       THEN [s1 EXCEPT !.alerts = Append(@, "MISSING_COL"), !.status = "CRITICAL"]
       ELSE s1
\* df.columns after the rename of line 60.
Renamed(f) ==
    IF SchemaDrift(f) THEN (f.cols \ {"clientId"}) \cup {"client_id"} ELSE f.cols

\* Lines 68-74: null_rate > 0.05 and null_rate > 0.1 on null_count / len(df);
\* the rate of an empty file is nan, which exceeds nothing.
NullRateAbove(f, hundredths) ==
    f.rows > 0 /\ 100 * f.nulls > hundredths * f.rows
NullChecks(st, f) ==
    IF "client_id" \in Renamed(f) /\ NullRateAbove(f, 5)
    THEN [st EXCEPT !.alerts = Append(@, "HIGH_NULLS"),
                    !.status = IF NullRateAbove(f, 10) THEN "CRITICAL"
                               ELSE "WARNING"]
    ELSE st

\* Lines 105-107: any exception of the body ends the file as ERROR.
Failed(st) == [st EXCEPT !.status = "ERROR", !.alerts = Append(@, "exception")]

\* ---- inputs of the check
QcFile(c, r, n) == [cols |-> c, rows |-> r, nulls |-> n, readable |-> TRUE]
Unreadable == [cols |-> {}, rows |-> 0, nulls |-> 0, readable |-> FALSE]
QcColumnSets ==
    {{"client_id", "referrer", "event_data"}, {"clientId", "referrer", "event_data"},
     {"client_id", "event_data"}, {"clientId", "event_data"},
     {"referrer", "event_data"}, {"client_id", "referrer"}}
QcSizes == {<<0, 0>>, <<20, 0>>, <<20, 1>>, <<20, 2>>, <<20, 3>>}
QcFiles ==
    {QcFile(c, z[1], z[2]) : c \in QcColumnSets, z \in QcSizes} \cup {Unreadable}


\* ---- the loop over the files, one action per step of its body
QcReadCsv ==
    /\ qc_pc = "file"
    /\ files # <<>>
    /\ qc_file' = Head(files)
    /\ files' = Tail(files)
    /\ LET st == [file |-> Head(files), status |-> "PASS", alerts |-> <<>>]
       IN IF Head(files).readable
          THEN stats' = st /\ qc_pc' = "schema"
          ELSE stats' = Failed(st) /\ qc_pc' = "append"
    /\ UNCHANGED report_data
    /\ UNCHANGED <<pipeVars, monVars>>

QcSchemaChecks ==
    /\ qc_pc = "schema"
    /\ stats' = SchemaChecks(stats, qc_file)
    /\ qc_pc' = "nulls"
    /\ UNCHANGED <<files, qc_file, report_data>>
    /\ UNCHANGED <<pipeVars, monVars>>

QcNullChecks ==
    /\ qc_pc = "nulls"
    /\ stats' = NullChecks(stats, qc_file)
    /\ qc_pc' = "revenue"
    /\ UNCHANGED <<files, qc_file, report_data>>
    /\ UNCHANGED <<pipeVars, monVars>>

\* Lines 78-103 set no status; df['event_data'] raises when the column is absent.
QcRevenueChecks ==
    /\ qc_pc = "revenue"
    /\ stats' = IF "event_data" \in qc_file.cols THEN stats ELSE Failed(stats)
    /\ qc_pc' = "append"
    /\ UNCHANGED <<files, qc_file, report_data>>
    /\ UNCHANGED <<pipeVars, monVars>>

QcAppend ==
    /\ qc_pc = "append"
    /\ report_data' = Append(report_data, stats)
    /\ qc_pc' = "file"
    /\ UNCHANGED <<files, qc_file, stats>>
    /\ UNCHANGED <<pipeVars, monVars>>

\* Lines 112-136: the report is saved; no status changes.
QcSaveReport ==
    /\ qc_pc = "file"
    /\ files = <<>>
    /\ qc_pc' = "done"
    /\ UNCHANGED <<files, qc_file, stats, report_data>>
    /\ UNCHANGED <<pipeVars, monVars>>

NextQc ==
    \/ QcReadCsv
    \/ QcSchemaChecks
    \/ QcNullChecks
    \/ QcRevenueChecks
    \/ QcAppend
    \/ QcSaveReport

InitQc ==
    /\ PipelineIdle
    /\ MonitorIdle
    /\ files \in UNION {[1..k -> QcFiles] : k \in 1..MaxFiles}
    /\ qc_file = Unreadable
    /\ stats = [file |-> qc_file, status |-> "PASS", alerts |-> <<>>]
    /\ report_data = <<>>
    /\ qc_pc = "file"
SpecQc == InitQc /\ [][NextQc]_vars

\* --------------------------------------------- claims on the quality check
QcRank(s) ==
    CASE s = "PASS" -> 0 [] s = "WARNING" -> 1 [] s = "CRITICAL" -> 2
      [] s = "ERROR" -> 3
ReportedCritical ==
    \A i \in DOMAIN report_data :
        "referrer" \notin report_data[i].file.cols
            => report_data[i].status \in {"CRITICAL", "ERROR"}

\* C13: within one file no later check lowers the status (PASS < WARNING <
\* CRITICAL, ERROR above them), so a file without the referrer column is
\* reported CRITICAL or ERROR whatever its rate of null client_id.
C13_StatusNeverLowered ==
    /\ []ReportedCritical
    /\ [][qc_pc # "file" => QcRank(stats'.status) >= QcRank(stats.status)]_vars

====
